---- MODULE Spec2Model ----
(***************************************************************************)
(* bidsSynB0.py: one invocation of the script, as a state machine.         *)
(*                                                                         *)
(* The state is the script's variables (dwi_groups, the loop's locals, the *)
(* module-level fmap_sidecar), the files it reads and writes (the DWI      *)
(* sidecars, the per-group staging directories, the session's fmap/        *)
(* directory), the calls of the synthesis container, what it printed about *)
(* skipped groups, and how the process ended.  Each action is one stretch  *)
(* of the script between two points where the outside world answers (the   *)
(* dataset index, fslroi, singularity).                                    *)
(*                                                                         *)
(* Strings are Python's strings; a JSON number is written as the text      *)
(* str() gives for it.  A sidecar is a function from its keys to values.   *)
(***************************************************************************)
EXTENDS Integers, Sequences, FiniteSets, TLC

VARIABLES
    args,            \* argparse namespace: total_readout_time, combine_all_dwis
    dwi_images,      \* what layout.get returns for suffix='dwi' (line 44)
    disk,            \* the dataset's DWI sidecar files: path -> JSON object
    pc,              \* position in the script
    dwi_groups,      \* ordered dict: sequence of [key, files]
    gi,              \* index of the loop's current group in dwi_groups
    pe_direction,
    total_readout_time,
    dwi_needs_total_readout_time,
    staging,         \* group key -> the files of its working directories
    synb0_calls,     \* group keys, one per subprocess.run(synb0_cmd_list)
    fmap_volumes,    \* fmap/ file name -> group whose b0_u.nii.gz was copied
    fmap_sidecars,   \* fmap/ file name -> JSON object
    fmap_sidecar,    \* the module-level name fmap_sidecar: is it bound?
    skipped,         \* groups reported "Skipping group" (line 232)
    exit_code,       \* process exit status, meaningful once pc = "end"
    error            \* how the process ended: "", "sys.exit" or an exception

vars == <<args, dwi_images, disk, pc, dwi_groups, gi, pe_direction,
          total_readout_time, dwi_needs_total_readout_time, staging,
          synb0_calls, fmap_volumes, fmap_sidecars, fmap_sidecar, skipped,
          exit_code, error>>

-----------------------------------------------------------------------------
(* Bounds and input sets *)

\* DWI images in a session scanned along j (the script's axial default)
MaxImages == 3
\* DWI images in a session scanned along i or k
MaxOffAxisImages == 2

PyNone == "None"

participant_label == "01"
session_label == "1"

AcqLabels == {"dir98"}
GroupLabels == {"dir98", "dir99"}
Axes == {"i", "j", "k"}
Signs == {"", "-"}
Override == "0.05"

-----------------------------------------------------------------------------
(* Python string helpers *)

\* Where old occurs in s
Occurrences(s, old) ==
    {n \in 1..(Len(s) - Len(old) + 1) : SubSeq(s, n, n + Len(old) - 1) = old}

RECURSIVE Replace(_, _, _)
\* str.replace(old, new): every occurrence, left to right, not overlapping
Replace(s, old, new) ==
    LET found == Occurrences(s, old)
    IN IF found = {} THEN s
       ELSE LET first == CHOOSE n \in found : \A m \in found : n <= m
            IN SubSeq(s, 1, first - 1) \o new
                   \o Replace(SubSeq(s, first + Len(old), Len(s)), old, new)

RECURSIVE JoinStr(_, _)
\* sep.join(parts)
JoinStr(parts, sep) ==
    IF Len(parts) = 0 THEN ""
    ELSE IF Len(parts) = 1 THEN parts[1]
    ELSE parts[1] \o sep \o JoinStr(Tail(parts), sep)

-----------------------------------------------------------------------------
(* The dataset: BIDSFile objects and their sidecars *)

\* The n-th DWI image of the session: its file name carries acq-<label> only
\* when it has an acquisition entity; get_entities()['acquisition'] is
\* PyNone (falsy) when it has none.
FileName(n, acq) ==
    "sub-" \o participant_label \o "_ses-" \o session_label
        \o (IF acq = PyNone THEN "" ELSE "_acq-" \o acq)
        \o "_run-" \o ToString(n) \o "_dwi.nii.gz"

DwiDir == "/d/sub-" \o participant_label \o "/ses-" \o session_label \o "/dwi/"

BIDSFile(n, acq) ==
    [filename |-> FileName(n, acq),
     path |-> DwiDir \o FileName(n, acq),
     acquisition |-> acq]

\* dwi_image.path.replace('.nii.gz', '.json')
SidecarPath(path) == Replace(path, ".nii.gz", ".json")

\* The text of the n-th image's readout time, distinct per image
TrtValue(n) == "0.09" \o ToString(n)

BaseSidecar(n, dir) ==
    [k \in {"PhaseEncodingDirection", "EffectiveEchoSpacing", "SeriesNumber"} |->
        CASE k = "PhaseEncodingDirection" -> dir
          [] k = "EffectiveEchoSpacing" -> "0.00069"
          [] OTHER -> ToString(n)]

Sidecar(n, dir, hasTrt) ==
    IF hasTrt THEN ("TotalReadoutTime" :> TrtValue(n)) @@ BaseSidecar(n, dir)
    ELSE BaseSidecar(n, dir)

HasKey(d, k) == k \in DOMAIN d

-----------------------------------------------------------------------------
(* get_dwi_images, lines 43-58 *)

GroupIndex(groups, key) == CHOOSE n \in 1..Len(groups) : groups[n].key = key

HasGroup(groups, key) == \E n \in 1..Len(groups) : groups[n].key = key

\* AddToGroup with line 56 assigning a fresh list instead of appending
AddToGroupOverwrites(groups, file) ==
    LET acq_label == IF file.acquisition = PyNone THEN "noacq" ELSE file.acquisition
    IN IF HasGroup(groups, acq_label)
       THEN [groups EXCEPT ![GroupIndex(groups, acq_label)].files = <<file>>]
       ELSE Append(groups, [key |-> acq_label, files |-> <<file>>])

\* lines 51-56: one pass of the loop body
AddToGroup(groups, file) ==
    LET acq_label == IF file.acquisition = PyNone THEN "noacq" ELSE file.acquisition
    IN IF HasGroup(groups, acq_label)
       THEN [groups EXCEPT ![GroupIndex(groups, acq_label)].files = Append(@, file)]
       ELSE Append(groups, [key |-> acq_label, files |-> <<file>>])

RECURSIVE GroupImages(_, _)
GroupImages(images, groups) ==
    IF Len(images) = 0 THEN groups
    ELSE GroupImages(Tail(images), AddToGroup(groups, Head(images)))

get_dwi_images(images) == GroupImages(images, <<>>)

RECURSIVE Flatten(_)
\* [item for sublist in dwi_groups.values() for item in sublist]
Flatten(groups) ==
    IF Len(groups) = 0 THEN <<>>
    ELSE Head(groups).files \o Flatten(Tail(groups))

\* CombineGroups keeping only the first group's list
CombineGroupsFirstOnly(groups) ==
    <<[key |-> "combined",
       files |-> IF Len(groups) = 0 THEN <<>> ELSE Head(groups).files]>>

\* line 153
CombineGroups(groups) == <<[key |-> "combined", files |-> Flatten(groups)]>>

-----------------------------------------------------------------------------
(* The per-group loop's pure parts, lines 210-369 *)

RECURSIVE CheckDirections(_, _, _, _)
\* lines 216-229: pe_direction is the first member's direction, and
\* pe_direction_consistent turns False at any later member that differs
CheckDirections(files, d, pe, consistent) ==
    IF Len(files) = 0 THEN [pe_direction |-> pe, consistent |-> consistent]
    ELSE LET sidecar == d[SidecarPath(Head(files).path)]
         IN IF pe # PyNone
            THEN CheckDirections(Tail(files), d, pe,
                     IF pe # sidecar["PhaseEncodingDirection"] THEN FALSE
                     ELSE consistent)
            ELSE CheckDirections(Tail(files), d,
                     sidecar["PhaseEncodingDirection"], consistent)

RECURSIVE CheckDirectionsLastWins(_, _, _, _)
\* CheckDirections with line 227 as pe_direction_consistent = (a match): a
\* later member that matches clears an earlier mismatch
CheckDirectionsLastWins(files, d, pe, consistent) ==
    IF Len(files) = 0 THEN [pe_direction |-> pe, consistent |-> consistent]
    ELSE LET sidecar == d[SidecarPath(Head(files).path)]
         IN IF pe # PyNone
            THEN CheckDirectionsLastWins(Tail(files), d, pe,
                     pe = sidecar["PhaseEncodingDirection"])
            ELSE CheckDirectionsLastWins(Tail(files), d,
                     sidecar["PhaseEncodingDirection"], consistent)

PhaseEncodingCheckLastWins(files, d) ==
    CheckDirectionsLastWins(files, d, PyNone, TRUE)

PhaseEncodingCheck(files, d) == CheckDirections(files, d, PyNone, TRUE)

\* ResolveReadoutTime with the command line's value taking precedence
ResolveReadoutTimeOverrideFirst(sidecar, override) ==
    IF override # PyNone
    THEN [total_readout_time |-> override,
          needs |-> ~HasKey(sidecar, "TotalReadoutTime"), exit |-> FALSE]
    ELSE IF HasKey(sidecar, "TotalReadoutTime")
    THEN [total_readout_time |-> sidecar["TotalReadoutTime"],
          needs |-> FALSE, exit |-> FALSE]
    ELSE [total_readout_time |-> override, needs |-> TRUE, exit |-> TRUE]

\* ResolveReadoutTime falling back to a default instead of exiting
ResolveReadoutTimeDefaulted(sidecar, override) ==
    IF HasKey(sidecar, "TotalReadoutTime")
    THEN [total_readout_time |-> sidecar["TotalReadoutTime"],
          needs |-> FALSE, exit |-> FALSE]
    ELSE IF override # PyNone
    THEN [total_readout_time |-> override, needs |-> TRUE, exit |-> FALSE]
    ELSE [total_readout_time |-> "0.0", needs |-> FALSE, exit |-> FALSE]

\* lines 242-259: the sidecar's value when it has one, else the command
\* line's; fatal when neither is there
ResolveReadoutTime(sidecar, override) ==
    IF HasKey(sidecar, "TotalReadoutTime")
    THEN [total_readout_time |-> sidecar["TotalReadoutTime"],
          needs |-> FALSE, exit |-> FALSE]
    ELSE [total_readout_time |-> override,
          needs |-> TRUE, exit |-> override = PyNone]

\* line 276
phase_encode_vectors ==
    ("i" :> <<1, 0, 0>>) @@ ("i-" :> <<-1, 0, 0>>) @@
    ("j" :> <<0, 1, 0>>) @@ ("j-" :> <<0, -1, 0>>) @@
    ("k" :> <<0, 0, 1>>) @@ ("k-" :> <<0, 0, -1>>)

\* line 279
phase_encode_labels ==
    ("i" :> "RL") @@ ("i-" :> "LR") @@ ("j" :> "PA") @@ ("j-" :> "AP")

\* ' '.join([str(x) for x in v])
VectorText(v) == JoinStr([n \in 1..Len(v) |-> ToString(v[n])], " ")

\* lines 313-318: the two lines of acqparams.txt
AcqParams(pe, readout) ==
    <<VectorText(phase_encode_vectors[pe]) \o " " \o readout,
      VectorText(phase_encode_vectors[pe]) \o " " \o "0.000">>

\* InvertDirection that only ever appends the '-'
InvertDirectionAppendOnly(pe) == pe \o "-"

\* line 338
InvertDirection(pe) ==
    IF SubSeq(pe, Len(pe), Len(pe)) = "-"
    THEN SubSeq(pe, 1, Len(pe) - 1)
    ELSE pe \o "-"

\* FmapFileName without the branch for "noacq"
FmapFileNameNoSpecialCase(group, label) ==
    "sub-" \o participant_label \o "_ses-" \o session_label
        \o "_acq-" \o group \o "synb0_dir-" \o label \o "_epi.nii.gz"

\* lines 342-345
FmapFileName(group, label) ==
    IF group = "noacq"
    THEN "sub-" \o participant_label \o "_ses-" \o session_label
             \o "_acq-synb0_dir-" \o label \o "_epi.nii.gz"
    ELSE "sub-" \o participant_label \o "_ses-" \o session_label
             \o "_acq-" \o group \o "synb0_dir-" \o label \o "_epi.nii.gz"

\* line 361
IntendedFor(files) ==
    [n \in 1..Len(files) |->
        "ses-" \o session_label \o "/" \o "dwi" \o "/" \o files[n].filename]

\* json.dump's text of 0.0000001 (line 365) and of 0.0 (line 366)
FmapPlaceholderReadout == "1e-07"
FmapEchoSpacing == "0.0"

\* FmapSidecar without line 365: the DWI's readout time is inherited
FmapSidecarKeepsReadout(ref_sidecar, files, fmap_phase_encode_dir) ==
    [k \in DOMAIN ref_sidecar \cup
           {"IntendedFor", "PhaseEncodingDirection", "EffectiveEchoSpacing"} |->
        CASE k = "IntendedFor" -> IntendedFor(files)
          [] k = "PhaseEncodingDirection" -> fmap_phase_encode_dir
          [] k = "EffectiveEchoSpacing" -> FmapEchoSpacing
          [] OTHER -> ref_sidecar[k]]

\* lines 359-366: the copied reference sidecar with four keys set
FmapSidecar(ref_sidecar, files, fmap_phase_encode_dir) ==
    [k \in DOMAIN ref_sidecar \cup
           {"IntendedFor", "PhaseEncodingDirection", "TotalReadoutTime",
            "EffectiveEchoSpacing"} |->
        CASE k = "IntendedFor" -> IntendedFor(files)
          [] k = "PhaseEncodingDirection" -> fmap_phase_encode_dir
          [] k = "TotalReadoutTime" -> FmapPlaceholderReadout
          [] k = "EffectiveEchoSpacing" -> FmapEchoSpacing
          [] OTHER -> ref_sidecar[k]]

\* open(path, 'w') leaves the file empty until something is written
EmptyFile == [k \in {} |-> ""]

-----------------------------------------------------------------------------
(* Initial states *)

ImageKinds(labels) == [acq : labels \cup {PyNone}, sign : Signs, trt : BOOLEAN]

SidecarPaths(images) == {SidecarPath(images[m].path) : m \in 1..Len(images)}

\* A session of n DWI scans along one phase-encoding axis, each with its own
\* acquisition label, polarity and (for older data) missing readout time
SessionInit(axis, n, kinds) ==
    /\ dwi_images = [m \in 1..n |-> BIDSFile(m, kinds[m].acq)]
    /\ disk = [p \in SidecarPaths([m \in 1..n |-> BIDSFile(m, kinds[m].acq)]) |->
                 LET m == CHOOSE m \in 1..n :
                              SidecarPath(BIDSFile(m, kinds[m].acq).path) = p
                 IN Sidecar(m, axis \o kinds[m].sign, kinds[m].trt)]

ScriptStart ==
    /\ pc = "start"
    /\ dwi_groups = <<>>
    /\ gi = 0
    /\ pe_direction = PyNone
    /\ total_readout_time = PyNone
    /\ dwi_needs_total_readout_time = FALSE
    /\ staging = EmptyFile
    /\ synb0_calls = <<>>
    /\ fmap_volumes = EmptyFile
    /\ fmap_sidecars = EmptyFile
    /\ fmap_sidecar = FALSE
    /\ skipped = {}
    /\ exit_code = 0
    /\ error = ""

Init ==
    /\ args \in [total_readout_time : {PyNone, Override},
                 combine_all_dwis : BOOLEAN]
    /\ \E axis \in Axes :
          \E n \in 0..(IF axis = "j" THEN MaxImages ELSE MaxOffAxisImages) :
             \E kinds \in [1..n -> ImageKinds(AcqLabels)] :
                SessionInit(axis, n, kinds)
    /\ ScriptStart

-----------------------------------------------------------------------------
(* Actions *)

group == dwi_groups[gi].key
group_dwi_images == dwi_groups[gi].files
dwi_ref == group_dwi_images[1]
dwi_ref_sidecar_file == SidecarPath(dwi_ref.path)

Raise(exception) ==
    /\ pc' = "end"
    /\ exit_code' = 1
    /\ error' = exception

\* "continue", or the end of the loop body: on to the next group, or off the
\* end of the script
NextIteration ==
    /\ gi' = gi + 1
    /\ IF gi + 1 <= Len(dwi_groups)
       THEN pc' = "check_pe" /\ UNCHANGED <<exit_code, error>>
       ELSE pc' = "end" /\ exit_code' = 0 /\ error' = ""

\* line 148
GetDwiImages ==
    /\ pc = "start"
    /\ dwi_groups' = get_dwi_images(dwi_images)
    /\ pc' = "combine"
    /\ UNCHANGED <<args, dwi_images, disk, gi, pe_direction, total_readout_time,
                   dwi_needs_total_readout_time, staging, synb0_calls,
                   fmap_volumes, fmap_sidecars, fmap_sidecar, skipped,
                   exit_code, error>>

\* lines 150-153
CombineAllDwis ==
    /\ pc = "combine"
    /\ dwi_groups' = IF args.combine_all_dwis THEN CombineGroups(dwi_groups)
                     ELSE dwi_groups
    /\ pc' = "t1w"
    /\ UNCHANGED <<args, dwi_images, disk, gi, pe_direction, total_readout_time,
                   dwi_needs_total_readout_time, staging, synb0_calls,
                   fmap_volumes, fmap_sidecars, fmap_sidecar, skipped,
                   exit_code, error>>

\* lines 155-207: the index answers with 0, 1 or 2 T1w files, and the one
\* file is there or not; then the loop starts at the first group
FindT1w ==
    /\ pc = "t1w"
    /\ \E t1w_files \in 0..2, t1w_exists \in BOOLEAN :
          IF t1w_files # 1 \/ ~t1w_exists
          THEN /\ pc' = "end"
               /\ exit_code' = 1
               /\ error' = "sys.exit"
               /\ gi' = gi
          ELSE /\ gi' = 1
               /\ IF Len(dwi_groups) >= 1
                  THEN pc' = "check_pe" /\ UNCHANGED <<exit_code, error>>
                  ELSE pc' = "end" /\ exit_code' = 0 /\ error' = ""
    /\ UNCHANGED <<args, dwi_images, disk, dwi_groups, pe_direction,
                   total_readout_time, dwi_needs_total_readout_time, staging,
                   synb0_calls, fmap_volumes, fmap_sidecars, fmap_sidecar,
                   skipped>>

\* lines 211-235
CheckPhaseEncoding ==
    /\ pc = "check_pe"
    /\ LET r == PhaseEncodingCheck(group_dwi_images, disk)
       IN /\ pe_direction' = r.pe_direction
          /\ IF ~r.consistent
             THEN /\ skipped' = skipped \cup {group}
                  /\ NextIteration
             ELSE IF r.pe_direction = PyNone
             THEN \* line 235: "..." + None
                  /\ Raise("TypeError")
                  /\ UNCHANGED <<gi, skipped>>
             ELSE /\ pc' = "resolve"
                  /\ UNCHANGED <<gi, skipped, exit_code, error>>
    /\ UNCHANGED <<args, dwi_images, disk, dwi_groups, total_readout_time,
                   dwi_needs_total_readout_time, staging, synb0_calls,
                   fmap_volumes, fmap_sidecars, fmap_sidecar>>

\* lines 239-259
ReadoutTime ==
    /\ pc = "resolve"
    /\ LET r == ResolveReadoutTime(disk[dwi_ref_sidecar_file],
                                   args.total_readout_time)
       IN /\ total_readout_time' = r.total_readout_time
          /\ dwi_needs_total_readout_time' = r.needs
          /\ IF r.exit
             THEN /\ pc' = "end"
                  /\ exit_code' = 1
                  /\ error' = "sys.exit"
             ELSE /\ pc' = IF r.needs THEN "backfill" ELSE "stage"
                  /\ UNCHANGED <<exit_code, error>>
    /\ UNCHANGED <<args, dwi_images, disk, dwi_groups, gi, pe_direction,
                   staging, synb0_calls, fmap_volumes, fmap_sidecars,
                   fmap_sidecar, skipped>>

\* lines 261-269, first pass of the loop: the reference image's sidecar is
\* opened for writing (and so emptied), then json.dump(fmap_sidecar,
\* fmap_sidecar_fh) names the module-level fmap_sidecar: unbound until a
\* group has run to line 360 (NameError), and after that bound together
\* with fmap_sidecar_fh, a closed file (ValueError)
BackfillReadoutTime ==
    /\ pc = "backfill"
    /\ disk' = [disk EXCEPT ![dwi_ref_sidecar_file] = EmptyFile]
    /\ Raise(IF fmap_sidecar THEN "ValueError" ELSE "NameError")
    /\ UNCHANGED <<args, dwi_images, dwi_groups, gi, pe_direction,
                   total_readout_time, dwi_needs_total_readout_time, staging,
                   synb0_calls, fmap_volumes, fmap_sidecars, fmap_sidecar,
                   skipped>>

\* lines 276-318: the three directories, fslroi (which leaves b0.nii.gz or
\* not), the T1 copy and acqparams.txt
StageInputs ==
    /\ pc = "stage"
    /\ \E b0_extracted \in BOOLEAN :
          IF ~b0_extracted
          THEN /\ staging' = (group :> [b0 |-> FALSE, T1 |-> FALSE,
                                         acqparams |-> <<>>, b0_u |-> FALSE])
                             @@ staging
               /\ pc' = "end"
               /\ exit_code' = 1
               /\ error' = "sys.exit"
          ELSE IF ~HasKey(phase_encode_vectors, pe_direction)
          THEN /\ staging' = (group :> [b0 |-> TRUE, T1 |-> TRUE,
                                         acqparams |-> <<>>, b0_u |-> FALSE])
                             @@ staging
               /\ Raise("KeyError")
          ELSE /\ staging' = (group :> [b0 |-> TRUE, T1 |-> TRUE,
                                  acqparams |-> AcqParams(pe_direction,
                                                          total_readout_time),
                                  b0_u |-> FALSE])
                             @@ staging
               /\ pc' = "synb0"
               /\ UNCHANGED <<exit_code, error>>
    /\ UNCHANGED <<args, dwi_images, disk, dwi_groups, gi, pe_direction,
                   total_readout_time, dwi_needs_total_readout_time,
                   synb0_calls, fmap_volumes, fmap_sidecars, fmap_sidecar,
                   skipped>>

\* lines 320-334: singularity is on the PATH or not; the container leaves
\* b0_u.nii.gz in the output directory or not
RunSynb0 ==
    /\ pc = "synb0"
    /\ \E singularity \in BOOLEAN, b0_u \in BOOLEAN :
          IF ~singularity
          THEN /\ Raise("RuntimeError")
               /\ UNCHANGED <<staging, synb0_calls>>
          ELSE /\ synb0_calls' = Append(synb0_calls, group)
               /\ staging' = [staging EXCEPT ![group].b0_u = b0_u]
               /\ pc' = "write_fmap"
               /\ UNCHANGED <<exit_code, error>>
    /\ UNCHANGED <<args, dwi_images, disk, dwi_groups, gi, pe_direction,
                   total_readout_time, dwi_needs_total_readout_time,
                   fmap_volumes, fmap_sidecars, fmap_sidecar, skipped>>

\* lines 336-369
WriteFmap ==
    /\ pc = "write_fmap"
    /\ LET fmap_phase_encode_dir == InvertDirection(pe_direction)
       IN IF ~HasKey(phase_encode_labels, fmap_phase_encode_dir)
          THEN \* line 340
               /\ Raise("KeyError")
               /\ UNCHANGED <<gi, fmap_volumes, fmap_sidecars, fmap_sidecar>>
          ELSE IF ~staging[group].b0_u
          THEN \* line 352
               /\ Raise("FileNotFoundError")
               /\ UNCHANGED <<gi, fmap_volumes, fmap_sidecars, fmap_sidecar>>
          ELSE LET fmap_file_name ==
                       FmapFileName(group,
                                    phase_encode_labels[fmap_phase_encode_dir])
                   fmap_sidecar_file == Replace(fmap_file_name, ".nii.gz", ".json")
               IN /\ fmap_volumes' = (fmap_file_name :> group) @@ fmap_volumes
                  /\ fmap_sidecars' =
                         (fmap_sidecar_file :>
                              FmapSidecar(disk[dwi_ref_sidecar_file],
                                          group_dwi_images,
                                          fmap_phase_encode_dir))
                         @@ fmap_sidecars
                  /\ fmap_sidecar' = TRUE
                  /\ NextIteration
    /\ UNCHANGED <<args, dwi_images, disk, dwi_groups, pe_direction,
                   total_readout_time, dwi_needs_total_readout_time, staging,
                   synb0_calls, skipped>>

Next ==
    \/ GetDwiImages
    \/ CombineAllDwis
    \/ FindT1w
    \/ CheckPhaseEncoding
    \/ ReadoutTime
    \/ BackfillReadoutTime
    \/ StageInputs
    \/ RunSynb0
    \/ WriteFmap

Spec == Init /\ [][Next]_vars

-----------------------------------------------------------------------------
(* The grouping alone, over a wider set of acquisition labels: the sidecars *)
(* are never read before the loop, so they are all alike here               *)

InitGroup ==
    /\ args \in [total_readout_time : {PyNone}, combine_all_dwis : BOOLEAN]
    /\ \E n \in 0..MaxImages :
          \E kinds \in [1..n -> [acq : GroupLabels \cup {PyNone},
                                 sign : {""}, trt : {TRUE}]] :
             SessionInit("j", n, kinds)
    /\ ScriptStart

NextGroup == GetDwiImages \/ CombineAllDwis

SpecGroup == InitGroup /\ [][NextGroup]_vars

-----------------------------------------------------------------------------
(* Properties *)

Range(f) == {f[x] : x \in DOMAIN f}

\* The places <<g, n>> of the grouping: member n of group g
Places(groups) ==
    UNION {{<<g, n>> : n \in 1..Len(groups[g].files)} : g \in 1..Len(groups)}

PlacesOf(groups, file) ==
    {pl \in Places(groups) : groups[pl[1]].files[pl[2]] = file}

InputPosition(file) == CHOOSE m \in 1..Len(dwi_images) : dwi_images[m] = file

\* C1: right after get_dwi_images the groups partition the images the index
\* returned: every image is in exactly one group, every member is an input
\* image, a group's key is the acquisition label of each member ("noacq"
\* for a member without one), group keys are distinct, no group is empty,
\* and members keep their input order.
C1_GroupsPartitionInput ==
    pc = "combine" =>
        /\ \A m \in 1..Len(dwi_images) :
              Cardinality(PlacesOf(dwi_groups, dwi_images[m])) = 1
        /\ \A pl \in Places(dwi_groups) :
              LET file == dwi_groups[pl[1]].files[pl[2]]
              IN /\ file \in Range(dwi_images)
                 /\ IF file.acquisition = PyNone
                    THEN dwi_groups[pl[1]].key = "noacq"
                    ELSE dwi_groups[pl[1]].key = file.acquisition
        /\ \A g \in 1..Len(dwi_groups) :
              /\ Len(dwi_groups[g].files) >= 1
              /\ \A h \in 1..Len(dwi_groups) :
                    dwi_groups[g].key = dwi_groups[h].key => g = h
              /\ \A n1, n2 \in 1..Len(dwi_groups[g].files) :
                    n1 < n2 => InputPosition(dwi_groups[g].files[n1])
                                   < InputPosition(dwi_groups[g].files[n2])

\* Three images, two of one label and one without a label, grouped
C1_Witness ==
    /\ pc = "combine"
    /\ Len(dwi_images) = 3
    /\ Len(dwi_groups) = 2
    /\ HasGroup(dwi_groups, "noacq")
    /\ HasGroup(dwi_groups, "dir99")

\* C2: with --combine-all-dwis, after line 153 there is exactly one group,
\* keyed "combined", and each image the index returned is a member of it
\* exactly once (and it has no other member).
C2_CombineYieldsOneGroup ==
    (pc = "t1w" /\ args.combine_all_dwis) =>
        /\ Len(dwi_groups) = 1
        /\ dwi_groups[1].key = "combined"
        /\ Len(dwi_groups[1].files) = Len(dwi_images)
        /\ \A m \in 1..Len(dwi_images) :
              Cardinality(PlacesOf(dwi_groups, dwi_images[m])) = 1

\* Three images of three different labels, combined
C2_Witness ==
    /\ pc = "t1w"
    /\ args.combine_all_dwis
    /\ Len(dwi_images) = 3
    /\ Len(get_dwi_images(dwi_images)) = 3
    /\ Len(dwi_groups) = 1

-----------------------------------------------------------------------------
(* The loop's groups, as the properties see them *)

EndsWith(s, suffix) ==
    Len(s) >= Len(suffix) /\ SubSeq(s, Len(s) - Len(suffix) + 1, Len(s)) = suffix

InLoop == gi \in 1..Len(dwi_groups)

\* The loop is in group gi and past its readout-time step (or ended there)
PastReadoutStep ==
    /\ InLoop
    /\ Len(dwi_groups[gi].files) >= 1
    /\ pc \in {"backfill", "stage", "synb0", "write_fmap", "end"}

RefSidecar(g) == disk[SidecarPath(dwi_groups[g].files[1].path)]

MemberSidecar(g, n) == disk[SidecarPath(dwi_groups[g].files[n].path)]

\* Some member's direction differs from the first member's
Inconsistent(g) ==
    /\ Len(dwi_groups[g].files) >= 1
    /\ HasKey(RefSidecar(g), "PhaseEncodingDirection")
    /\ \E n \in 1..Len(dwi_groups[g].files) :
          /\ HasKey(MemberSidecar(g, n), "PhaseEncodingDirection")
          /\ MemberSidecar(g, n)["PhaseEncodingDirection"]
                 # RefSidecar(g)["PhaseEncodingDirection"]

\* Nothing was staged, run or written for the group
NoTraceOf(key) ==
    /\ key \notin DOMAIN staging
    /\ key \notin Range(synb0_calls)
    /\ key \notin Range(fmap_volumes)

\* The group ran to the end of the loop body: its field map and sidecar are
\* in fmap/
Completed(key) ==
    \E f \in DOMAIN fmap_volumes :
        /\ fmap_volumes[f] = key
        /\ Replace(f, ".nii.gz", ".json") \in DOMAIN fmap_sidecars

-----------------------------------------------------------------------------
\* C3: the readout time of a group is its reference sidecar's
\* TotalReadoutTime whenever the sidecar has one, whether or not -t is given,
\* and that is the value line one of acqparams.txt ends with; the command
\* line's value is taken only when the sidecar has none; with neither, the
\* process ends by sys.exit(1).
C3_ReadoutTimePrecedence ==
    /\ \A key \in DOMAIN staging :
          staging[key].acqparams # <<>> =>
              LET ref == RefSidecar(GroupIndex(dwi_groups, key))
              IN /\ HasKey(ref, "TotalReadoutTime")
                 /\ EndsWith(staging[key].acqparams[1],
                             " " \o ref["TotalReadoutTime"])
    /\ (PastReadoutStep /\ HasKey(RefSidecar(gi), "TotalReadoutTime")) =>
          /\ total_readout_time = RefSidecar(gi)["TotalReadoutTime"]
          /\ ~dwi_needs_total_readout_time
    /\ (PastReadoutStep /\ total_readout_time = Override) =>
          ~HasKey(RefSidecar(gi), "TotalReadoutTime")
    /\ (PastReadoutStep /\ ~HasKey(RefSidecar(gi), "TotalReadoutTime")
                        /\ args.total_readout_time = PyNone) =>
          (pc = "end" /\ exit_code = 1 /\ error = "sys.exit")

\* A group was staged from a sidecar that has the field while -t was given
C3_Witness ==
    /\ args.total_readout_time = Override
    /\ \E key \in DOMAIN staging :
          /\ staging[key].acqparams # <<>>
          /\ HasKey(RefSidecar(GroupIndex(dwi_groups, key)), "TotalReadoutTime")

-----------------------------------------------------------------------------
-----------------------------------------------------------------------------
\* C5: a group with a member whose PhaseEncodingDirection differs from its
\* first member's leaves no trace (nothing staged, no synthesis run, no
\* field map or sidecar); once the loop is past it, it was reported skipped,
\* and the loop went on: every group the loop is past was either skipped as
\* inconsistent or ran to completion, and the process never ends with an
\* error inside an inconsistent group.
C5_InconsistentGroupSkipped ==
    /\ \A g \in 1..Len(dwi_groups) :
          Inconsistent(g) =>
              /\ NoTraceOf(dwi_groups[g].key)
              /\ ~Completed(dwi_groups[g].key)
              /\ (g < gi => dwi_groups[g].key \in skipped)
              /\ ~(g = gi /\ pc = "end")
    /\ \A g \in 1..Len(dwi_groups) :
          g < gi =>
              \/ dwi_groups[g].key \in skipped /\ Inconsistent(g)
              \/ Completed(dwi_groups[g].key) /\ ~Inconsistent(g)

\* An inconsistent group was skipped and a later group ran to completion
C5_Witness ==
    \E g, h \in 1..Len(dwi_groups) :
        /\ g < h
        /\ Inconsistent(g)
        /\ dwi_groups[g].key \in skipped
        /\ Completed(dwi_groups[h].key)

-----------------------------------------------------------------------------
\* C6 as claimed: once the backfill step is over for a group whose reference
\* sidecar had no TotalReadoutTime while -t was given, every member's
\* sidecar on disk has TotalReadoutTime equal to the command line's value
\* and still has its other fields, and the run goes on towards synthesis.
C6_BackfillWritesEveryMember ==
    (PastReadoutStep /\ dwi_needs_total_readout_time
                     /\ args.total_readout_time # PyNone
                     /\ pc # "backfill") =>
        /\ \A n \in 1..Len(dwi_groups[gi].files) :
              /\ HasKey(MemberSidecar(gi, n), "TotalReadoutTime")
              /\ MemberSidecar(gi, n)["TotalReadoutTime"] = args.total_readout_time
              /\ HasKey(MemberSidecar(gi, n), "PhaseEncodingDirection")
              /\ HasKey(MemberSidecar(gi, n), "SeriesNumber")
        /\ error = ""

-----------------------------------------------------------------------------
FmapKeys ==
    {"IntendedFor", "PhaseEncodingDirection", "TotalReadoutTime",
     "EffectiveEchoSpacing"}

\* A direction and the same axis with the sign flipped
InversePairs ==
    {<<"i", "i-">>, <<"i-", "i">>, <<"j", "j-">>, <<"j-", "j">>,
     <<"k", "k-">>, <<"k-", "k">>}

\* C7: the sidecar written beside each field map equals the sidecar of the
\* group's first image except in four keys: IntendedFor is
\* ses-<S>/dwi/<filename> of every member in group order,
\* PhaseEncodingDirection is the group's direction inverted,
\* TotalReadoutTime is the placeholder 1e-07 and EffectiveEchoSpacing is 0.0;
\* it has no other new key and every other key keeps the inherited value.
C7_FmapSidecarFrame ==
    \A f \in DOMAIN fmap_volumes :
        LET g == GroupIndex(dwi_groups, fmap_volumes[f])
            ref == RefSidecar(g)
            json == SubSeq(f, 1, Len(f) - Len(".nii.gz")) \o ".json"
        IN /\ EndsWith(f, ".nii.gz")
           /\ json \in DOMAIN fmap_sidecars
           /\ DOMAIN fmap_sidecars[json] = DOMAIN ref \cup FmapKeys
           /\ fmap_sidecars[json]["IntendedFor"] =
                  [n \in 1..Len(dwi_groups[g].files) |->
                      "ses-" \o session_label \o "/dwi/"
                          \o dwi_groups[g].files[n].filename]
           /\ <<ref["PhaseEncodingDirection"],
                fmap_sidecars[json]["PhaseEncodingDirection"]>> \in InversePairs
           /\ fmap_sidecars[json]["TotalReadoutTime"] = "1e-07"
           /\ fmap_sidecars[json]["EffectiveEchoSpacing"] = "0.0"
           /\ \A k \in DOMAIN ref \ FmapKeys : fmap_sidecars[json][k] = ref[k]

\* A field map was written for a group of two images or more
C7_Witness ==
    \E f \in DOMAIN fmap_volumes :
        /\ Len(dwi_groups[GroupIndex(dwi_groups, fmap_volumes[f])].files) >= 2
        /\ Completed(fmap_volumes[f])

-----------------------------------------------------------------------------
\* The two-letter label of the inverse of a supported direction
InverseLabel(d) ==
    CASE d = "i" -> "LR" [] d = "i-" -> "RL" [] d = "j" -> "AP" [] d = "j-" -> "PA"

FmapNamePrefix == "sub-" \o participant_label \o "_ses-" \o session_label

\* C8 as claimed: the field map of the "noacq" group is named without any
\* acq- qualifier, sub-<P>_ses-<S>_dir-<LABEL>_epi.nii.gz, and that of any
\* other group g sub-<P>_ses-<S>_acq-<g>synb0_dir-<LABEL>_epi.nii.gz.
C8_NoacqOmitsQualifier ==
    \A f \in DOMAIN fmap_volumes :
        LET key == fmap_volumes[f]
            label == InverseLabel(RefSidecar(GroupIndex(dwi_groups, key))
                                      ["PhaseEncodingDirection"])
        IN f = IF key = "noacq"
               THEN FmapNamePrefix \o "_dir-" \o label \o "_epi.nii.gz"
               ELSE FmapNamePrefix \o "_acq-" \o key \o "synb0_dir-" \o label
                        \o "_epi.nii.gz"

\* C8 amended: the field map of a group g other than "noacq" is named
\* sub-<P>_ses-<S>_acq-<g>synb0_dir-<LABEL>_epi.nii.gz, LABEL being the
\* label of the inverted direction (dir98 with direction j gives
\* sub-01_ses-1_acq-dir98synb0_dir-AP_epi.nii.gz); for the "noacq" group
\* only the group key is left out of the qualifier, which stays acq-synb0:
\* sub-<P>_ses-<S>_acq-synb0_dir-<LABEL>_epi.nii.gz.
C8_FmapFileNamePattern ==
    \A f \in DOMAIN fmap_volumes :
        LET key == fmap_volumes[f]
            d == RefSidecar(GroupIndex(dwi_groups, key))["PhaseEncodingDirection"]
        IN /\ f = FmapNamePrefix \o "_acq-"
                      \o (IF key = "noacq" THEN "" ELSE key)
                      \o "synb0_dir-" \o InverseLabel(d) \o "_epi.nii.gz"
           /\ (key = "dir98" /\ d = "j") =>
                  f = "sub-01_ses-1_acq-dir98synb0_dir-AP_epi.nii.gz"

\* Both a labelled group's and the unlabelled group's field map were written
C8_Witness ==
    /\ "sub-01_ses-1_acq-dir98synb0_dir-AP_epi.nii.gz" \in DOMAIN fmap_volumes
    /\ "sub-01_ses-1_acq-synb0_dir-AP_epi.nii.gz" \in DOMAIN fmap_volumes
    /\ fmap_volumes["sub-01_ses-1_acq-synb0_dir-AP_epi.nii.gz"] = "noacq"

-----------------------------------------------------------------------------
SupportedDirections == {"i", "i-", "j", "j-"}

LabelPairs == {<<"RL", "LR">>, <<"LR", "RL">>, <<"PA", "AP">>, <<"AP", "PA">>}

\* C9: for every supported direction found in the session's sidecars,
\* inverting twice gives the direction back and the inverse has a file name
\* label, paired RL<->LR and PA<->AP with the direction's own; a group
\* whose direction is k or k- gets no field map and no sidecar, and once its
\* synthesis run is over the script ends in the KeyError of the label lookup.
C9_InversionAndUnsupportedAxes ==
    /\ \A p \in DOMAIN disk :
          (/\ HasKey(disk[p], "PhaseEncodingDirection")
           /\ disk[p]["PhaseEncodingDirection"] \in SupportedDirections) =>
              LET d == disk[p]["PhaseEncodingDirection"]
              IN /\ InvertDirection(InvertDirection(d)) = d
                 /\ InvertDirection(d) # d
                 /\ HasKey(phase_encode_labels, InvertDirection(d))
                 /\ <<phase_encode_labels[d],
                      phase_encode_labels[InvertDirection(d)]>> \in LabelPairs
    /\ \A g \in 1..Len(dwi_groups) :
          (/\ Len(dwi_groups[g].files) >= 1
           /\ HasKey(RefSidecar(g), "PhaseEncodingDirection")
           /\ RefSidecar(g)["PhaseEncodingDirection"] \in {"k", "k-"}) =>
              /\ dwi_groups[g].key \notin Range(fmap_volumes)
              /\ \A j \in DOMAIN fmap_sidecars :
                    ~EndsWith(fmap_sidecars[j]["IntendedFor"][1],
                              dwi_groups[g].files[1].filename)
              /\ (g = gi /\ dwi_groups[g].key \in Range(synb0_calls)
                         /\ pc # "write_fmap") =>
                     (pc = "end" /\ exit_code = 1 /\ error = "KeyError")

\* The label lookup raised for a group along k-, after its synthesis run
C9_Witness ==
    /\ pc = "end" /\ error = "KeyError"
    /\ InLoop
    /\ pe_direction = "k-"
    /\ dwi_groups[gi].key \in Range(synb0_calls)

-----------------------------------------------------------------------------
\* fslroi left no b0.nii.gz, or the container ran and left no b0_u.nii.gz
ToolFailed(key) ==
    /\ key \in DOMAIN staging
    /\ \/ ~staging[key].b0
       \/ key \in Range(synb0_calls) /\ ~staging[key].b0_u

\* C10 as claimed: a group whose slicing or synthesis left no output gets no
\* field map or sidecar, and the process does not end in that group while
\* other groups remain to be processed.
C10_ToolFailureFatalToGroupOnly ==
    \A g \in 1..Len(dwi_groups) :
        ToolFailed(dwi_groups[g].key) =>
            /\ dwi_groups[g].key \notin Range(fmap_volumes)
            /\ ~Completed(dwi_groups[g].key)
            /\ ~(pc = "end" /\ gi = g /\ g < Len(dwi_groups))

====
